---- MODULE Spec2Model ----
(***************************************************************************)
(* A model of the shell in src/main.rs: the tokenizer (parse_line), the    *)
(* planner (split_pipeline, parse_redirections, build_pipeline_stages),    *)
(* the execution engine (run_builtin, the redirect helpers, the two        *)
(* pipeline executors) and the REPL of main with its raw-mode guard.       *)
(*                                                                         *)
(* Text is a sequence of one-character strings.  Text a format! call       *)
(* builds is the concatenation of its pieces; a literal piece of a format  *)
(* string is kept as one element.                                          *)
(***************************************************************************)
EXTENDS Integers, Sequences, FiniteSets, TLC

VARIABLES
    pc,              \* position of the program
    input,           \* the line being tokenized / the line read by the REPL
    pos,             \* parse_line: index of the next character of `chars`
    state,           \* parse_line: State
    current,         \* parse_line: accumulator
    current_quoted,  \* parse_line: flag of the accumulator
    args,            \* parse_line: tokens produced so far
    cur_how,         \* history: how each character of `current` was appended
    how,             \* history: the same for every produced token
    last_step,       \* history: what the last loop iteration read
    raw_mode,        \* main: `_raw_mode`, an Option<RawModeGuard>
    termios,         \* the attributes of the terminal on STDIN_FILENO
    cwd,             \* the process's current working directory
    fs,              \* the file system: path of a regular file |-> its content
    nlines,          \* number of lines processed so far
    run,             \* what processing the line of this iteration did
    reason,          \* why the loop of main ended
    home,            \* the environment variable HOME, an Option
    plan,            \* the planner: the segments and stages made of the tokens `args`
    pending_multi,   \* read_user_input: the buffer a Tab found ambiguous, an Option
    edits,           \* history: one entry for every byte read_user_input has read
    path_names       \* the names of the executable files completion_matches finds in PATH

tokvars == <<input, pos, state, current, current_quoted, args, cur_how, how, last_step>>

\* what the REPL and the tokenizer leave alone
others == <<home, plan, pending_multi, edits, path_names>>

----------------------------------------------------------------------------
(* Bounds *)

MaxLen == 4
MaxLines == 1
MaxStages == 2
MaxSession == 3
MaxCd == 3
MaxTokens == 4
MaxKeys == 4
MaxBuf == 3

----------------------------------------------------------------------------
(* Helpers on sequences *)

SeqsUpTo(S, n) == UNION {[1..k -> S] : k \in 0..n}

----------------------------------------------------------------------------
(* parse_line, src/main.rs 267-348 *)

Quote1 == "'"
Quote2 == "\""
Backslash == "\\"

is_whitespace(c) == c \in {" ", "\t"}

ParsedToken(text, quoted) == [text |-> text, quoted |-> quoted]

\* The parser's locals as one record.
ParserInit == [pos |-> 1, state |-> "Normal", current |-> <<>>,
               current_quoted |-> FALSE, args |-> <<>>]

\* push the accumulator as a token, clear it and reset its flag (297-302)
Flush_KeepsFlag(p) ==
    [p EXCEPT !.args = Append(@, ParsedToken(p.current, p.current_quoted)),
              !.current = <<>>]

Flush(p) ==
    [p EXCEPT !.args = Append(@, ParsedToken(p.current, p.current_quoted)),
              !.current = <<>>,
              !.current_quoted = FALSE]

\* current.push(c); current_quoted = true
PushQuoted(p, c) ==
    [p EXCEPT !.current = Append(@, c), !.current_quoted = TRUE]

\* State::Normal arm (283-306); `inp` is the whole line, p.pos the character read
NormalStep(p, inp) ==
    LET ch == inp[p.pos]
        q  == [p EXCEPT !.pos = @ + 1]
    IN  IF ch = Quote1 THEN [q EXCEPT !.state = "Single"]
        ELSE IF ch = Quote2 THEN [q EXCEPT !.state = "Double"]
        ELSE IF ch = Backslash THEN
            IF p.pos < Len(inp)
            THEN PushQuoted([q EXCEPT !.pos = @ + 1], inp[p.pos + 1])
            ELSE PushQuoted(q, Backslash)
        ELSE IF is_whitespace(ch) THEN
            IF p.current # <<>> THEN Flush(q) ELSE q
        ELSE [q EXCEPT !.current = Append(@, ch)]

\* State::Single arm (307-314)
SingleStep_KeepsQuote(p, inp) ==
    LET ch == inp[p.pos]
        q  == [p EXCEPT !.pos = @ + 1]
    IN  IF ch = Quote1 THEN PushQuoted([q EXCEPT !.state = "Normal"], ch)
        ELSE PushQuoted(q, ch)

SingleStep(p, inp) ==
    LET ch == inp[p.pos]
        q  == [p EXCEPT !.pos = @ + 1]
    IN  IF ch = Quote1 THEN [q EXCEPT !.state = "Normal"]
        ELSE PushQuoted(q, ch)

\* State::Double arm (315-336)
DoubleStep_EscapesAny(p, inp) ==
    LET ch == inp[p.pos]
        q  == [p EXCEPT !.pos = @ + 1]
    IN  IF ch = Quote2 THEN [q EXCEPT !.state = "Normal"]
        ELSE IF ch = Backslash THEN
            IF p.pos < Len(inp)
            THEN PushQuoted([q EXCEPT !.pos = @ + 1], inp[p.pos + 1])
            ELSE PushQuoted(q, Backslash)
        ELSE PushQuoted(q, ch)

DoubleStep(p, inp) ==
    LET ch == inp[p.pos]
        q  == [p EXCEPT !.pos = @ + 1]
    IN  IF ch = Quote2 THEN [q EXCEPT !.state = "Normal"]
        ELSE IF ch = Backslash THEN
            IF p.pos < Len(inp)
            THEN LET next == inp[p.pos + 1]
                 IN  IF next = Quote2 \/ next = Backslash
                     THEN PushQuoted([q EXCEPT !.pos = @ + 1], next)
                     ELSE PushQuoted(q, Backslash)
            ELSE PushQuoted(q, Backslash)
        ELSE PushQuoted(q, ch)

\* one iteration of `while let Some(ch) = chars.next()` (281-338)
ParseStep(p, inp) ==
    CASE p.state = "Normal" -> NormalStep(p, inp)
      [] p.state = "Single" -> SingleStep(p, inp)
      [] p.state = "Double" -> DoubleStep(p, inp)

\* the flush after the loop (340-345)
ParseEnd_Always(p) == Flush(p)

ParseEnd(p) == IF p.current # <<>> THEN Flush(p) ELSE p

RECURSIVE ParseLoop(_, _)
ParseLoop(p, inp) ==
    IF p.pos > Len(inp) THEN p ELSE ParseLoop(ParseStep(p, inp), inp)

parse_line(inp) == ParseEnd(ParseLoop(ParserInit, inp)).args

----------------------------------------------------------------------------
(* Option<T>: None is the empty sequence, Some(v) the one-element sequence *)

None == <<>>
Some(v) == <<v>>

StartsWith(s, prefix) ==
    Len(s) >= Len(prefix) /\ SubSeq(s, 1, Len(prefix)) = prefix

\* args.join(" ")
RECURSIVE JoinWith(_, _)
JoinWith(words, sep) ==
    IF words = <<>> THEN <<>>
    ELSE IF Len(words) = 1 THEN words[1]
    ELSE words[1] \o sep \o JoinWith(Tail(words), sep)

----------------------------------------------------------------------------
(* The planner: parse_redirections 369-427, split_pipeline 429-444,        *)
(* build_pipeline_stages 593-607                                           *)

NoRedirects == [stdout |-> None, stderr |-> None]

\* the table `ops` of parse_op (378-385), in its order
ops_ShortFirst ==
       << [op |-> <<">">>,           is_stdout |-> TRUE,  mode |-> "Truncate"],
          [op |-> <<"1", ">">>,      is_stdout |-> TRUE,  mode |-> "Truncate"],
          [op |-> <<"2", ">">>,      is_stdout |-> FALSE, mode |-> "Truncate"],
          [op |-> <<">", ">">>,      is_stdout |-> TRUE,  mode |-> "Append"],
          [op |-> <<"1", ">", ">">>, is_stdout |-> TRUE,  mode |-> "Append"],
          [op |-> <<"2", ">", ">">>, is_stdout |-> FALSE, mode |-> "Append"] >>

ops == << [op |-> <<"1", ">", ">">>, is_stdout |-> TRUE,  mode |-> "Append"],
          [op |-> <<"2", ">", ">">>, is_stdout |-> FALSE, mode |-> "Append"],
          [op |-> <<">", ">">>,      is_stdout |-> TRUE,  mode |-> "Append"],
          [op |-> <<"1", ">">>,      is_stdout |-> TRUE,  mode |-> "Truncate"],
          [op |-> <<"2", ">">>,      is_stdout |-> FALSE, mode |-> "Truncate"],
          [op |-> <<">">>,           is_stdout |-> TRUE,  mode |-> "Truncate"] >>

\* the loop of parse_op (387-395), from entry k of the table
RECURSIVE parse_op_from(_, _)
parse_op_from(s, k) ==
    IF k > Len(ops) THEN None
    ELSE IF s = ops[k].op
         THEN Some([is_stdout |-> ops[k].is_stdout, mode |-> ops[k].mode, tail |-> <<>>])
    ELSE IF StartsWith(s, ops[k].op) /\ Len(s) > Len(ops[k].op)
         THEN Some([is_stdout |-> ops[k].is_stdout, mode |-> ops[k].mode,
                    tail |-> SubSeq(s, Len(ops[k].op) + 1, Len(s))])
    ELSE parse_op_from(s, k + 1)

parse_op(s) == parse_op_from(s, 1)

\* redirects.stdout = Some((target, mode)) / redirects.stderr = ... (413-417)
SetRedirect_FirstWins(redirects, is_stdout, target, mode) ==
    IF is_stdout
    THEN (IF redirects.stdout # None THEN redirects
          ELSE [redirects EXCEPT !.stdout = Some([path |-> target, mode |-> mode])])
    ELSE (IF redirects.stderr # None THEN redirects
          ELSE [redirects EXCEPT !.stderr = Some([path |-> target, mode |-> mode])])

SetRedirect(redirects, is_stdout, target, mode) ==
    IF is_stdout
    THEN [redirects EXCEPT !.stdout = Some([path |-> target, mode |-> mode])]
    ELSE [redirects EXCEPT !.stderr = Some([path |-> target, mode |-> mode])]

\* the while loop of parse_redirections (374-424), from index i
RECURSIVE parse_redirections_from(_, _, _, _)
parse_redirections_from(tokens, i, argv, redirects) ==
    IF i > Len(tokens) THEN [args |-> argv, redirects |-> redirects]
    ELSE LET token == tokens[i]
             parsed == IF token.quoted THEN None ELSE parse_op(token.text)
         IN  IF parsed = None
             THEN parse_redirections_from(tokens, i + 1, Append(argv, token.text), redirects)
             ELSE LET o == parsed[1]
                  IN  IF o.tail = <<>>
                      THEN IF i + 1 > Len(tokens)
                           THEN parse_redirections_from(tokens, i + 1,
                                    Append(argv, token.text), redirects)
                           ELSE parse_redirections_from(tokens, i + 2, argv,
                                    SetRedirect(redirects, o.is_stdout,
                                                tokens[i + 1].text, o.mode))
                      ELSE parse_redirections_from(tokens, i + 1, argv,
                               SetRedirect(redirects, o.is_stdout, o.tail, o.mode))

parse_redirections(tokens) == parse_redirections_from(tokens, 1, <<>>, NoRedirects)

IsPipeToken_AnyQuoting(token) == token.text = <<"|">>

IsPipeToken(token) == ~token.quoted /\ token.text = <<"|">>

\* the for loop of split_pipeline (433-440): <<stages, current>> after tokens[1..i]
RECURSIVE split_pipeline_upto(_, _)
split_pipeline_upto(tokens, i) ==
    IF i = 0 THEN [stages |-> <<>>, current |-> <<>>]
    ELSE LET before == split_pipeline_upto(tokens, i - 1)
         IN  IF IsPipeToken(tokens[i])
             THEN [stages |-> Append(before.stages, before.current), current |-> <<>>]
             ELSE [before EXCEPT !.current = Append(@, tokens[i])]

split_pipeline(tokens) ==
    LET r == split_pipeline_upto(tokens, Len(tokens))
    IN  Append(r.stages, r.current)

PipelineStage(cmd, argv, redirects) == [cmd |-> cmd, args |-> argv, redirects |-> redirects]

build_pipeline_stages_KeepsEmpty(segments) ==
    [i \in 1..Len(segments) |->
        LET pr == parse_redirections(segments[i])
        IN  IF pr.args = <<>> THEN PipelineStage(<<>>, <<>>, pr.redirects)
            ELSE PipelineStage(Head(pr.args), Tail(pr.args), pr.redirects)]

RECURSIVE build_pipeline_stages(_)
build_pipeline_stages(segments) ==
    IF segments = <<>> THEN <<>>
    ELSE LET pr == parse_redirections(Head(segments))
             rest == build_pipeline_stages(Tail(segments))
         IN  IF pr.args = <<>> THEN rest
             ELSE <<PipelineStage(Head(pr.args), Tail(pr.args), pr.redirects)>> \o rest

----------------------------------------------------------------------------
(* The environment the shell runs in.  The directories are / and /d; the   *)
(* search path is /bin, whose one executable is `cat` (the line editor is  *)
(* also run with other names in it, `path_names`); HOME is the value       *)
(* of `home`.  A path is opened as the OS does it: resolved against the    *)
(* current directory, and created when its parent directory exists.  The   *)
(* external program copies its standard input to its standard output and   *)
(* writes nothing to standard error.                                       *)

Root == <<"/">>
DirD == <<"/", "d">>
Dirs == {Root, DirD}
BinDir == <<"/", "b", "i", "n">>
Executables == { <<"c", "a", "t">> }
HOME == home
PROMPT == <<"$", " ">>

\* Path::join on text
JoinPath(dir, path) ==
    IF path # <<>> /\ path[1] = "/" THEN path
    ELSE IF dir = Root THEN dir \o path
    ELSE dir \o <<"/">> \o path

LastSlash(path) == CHOOSE k \in 1..Len(path) :
                      path[k] = "/" /\ \A j \in (k + 1)..Len(path) : path[j] # "/"

ParentDir(abs) == IF LastSlash(abs) = 1 THEN Root ELSE SubSeq(abs, 1, LastSlash(abs) - 1)

\* open(2) with O_CREAT succeeds on a file name in an existing directory
CanOpen(abs) == abs \notin Dirs /\ ParentDir(abs) \in Dirs

\* find_in_path 250-259 with is_executable 21-34
find_in_path(cmd) ==
    IF cmd \in Executables THEN Some(BinDir \o <<"/">> \o cmd) ELSE None

\* is_builtin_command 446-448
is_builtin_command(cmd) ==
    cmd \in { <<"e", "c", "h", "o">>, <<"e", "x", "i", "t">>, <<"t", "y", "p", "e">>,
              <<"p", "w", "d">>, <<"c", "d">> }

----------------------------------------------------------------------------
(* run_builtin 457-513.  The result carries the working directory the      *)
(* builtin leaves the process in.                                          *)

CommandResult(so, se, should_exit, dir) ==
    [stdout |-> so, stderr |-> se, should_exit |-> should_exit, cwd |-> dir]

\* env::set_current_dir: Some(new directory), or None when it fails
set_current_dir(dir, path) ==
    IF path # <<>> /\ JoinPath(dir, path) \in Dirs THEN Some(JoinPath(dir, path)) ELSE None

cd_error(target) == <<"cd: ">> \o target \o <<": No such file or directory\n">>

\* the "cd" arm (474-497)
builtin_cd_Always(dir, argv, apply_cd) ==
    IF argv # <<>>
    THEN LET target == argv[1]
             resolved == IF target = <<"~">> THEN HOME ELSE Some(target)
         IN  IF resolved = None THEN CommandResult(<<>>, cd_error(target), FALSE, dir)
             ELSE IF set_current_dir(dir, resolved[1]) = None
                  THEN CommandResult(<<>>, cd_error(target), FALSE, dir)
                  ELSE CommandResult(<<>>, <<>>, FALSE, set_current_dir(dir, resolved[1])[1])
    ELSE CommandResult(<<>>, <<>>, FALSE, dir)

builtin_cd(dir, argv, apply_cd) ==
    IF apply_cd /\ argv # <<>>
    THEN LET target == argv[1]
             resolved == IF target = <<"~">> THEN HOME ELSE Some(target)
         IN  IF resolved = None THEN CommandResult(<<>>, cd_error(target), FALSE, dir)
             ELSE IF set_current_dir(dir, resolved[1]) = None
                  THEN CommandResult(<<>>, cd_error(target), FALSE, dir)
                  ELSE CommandResult(<<>>, <<>>, FALSE, set_current_dir(dir, resolved[1])[1])
    ELSE CommandResult(<<>>, <<>>, FALSE, dir)

\* the "exit" arm (461-465)
builtin_exit(dir, allow_exit) == CommandResult(<<>>, <<>>, allow_exit, dir)

\* the "type" arm (498-508)
builtin_type(dir, argv) ==
    IF argv = <<>> THEN CommandResult(<<>>, <<>>, FALSE, dir)
    ELSE LET query == argv[1]
         IN  IF is_builtin_command(query)
             THEN CommandResult(query \o <<" is a shell builtin\n">>, <<>>, FALSE, dir)
             ELSE IF find_in_path(query) # None
             THEN CommandResult(query \o <<" is ">> \o find_in_path(query)[1] \o <<"\n">>,
                                <<>>, FALSE, dir)
             ELSE CommandResult(query \o <<": not found\n">>, <<>>, FALSE, dir)

run_builtin(dir, cmd, argv, allow_exit, apply_cd) ==
    CASE cmd = <<"e", "x", "i", "t">> -> Some(builtin_exit(dir, allow_exit))
      [] cmd = <<"e", "c", "h", "o">> ->
            Some(CommandResult(JoinWith(argv, <<" ">>) \o <<"\n">>, <<>>, FALSE, dir))
      [] cmd = <<"p", "w", "d">> -> Some(CommandResult(dir \o <<"\n">>, <<>>, FALSE, dir))
      [] cmd = <<"c", "d">> -> Some(builtin_cd(dir, argv, apply_cd))
      [] cmd = <<"t", "y", "p", "e">> -> Some(builtin_type(dir, argv))
      [] OTHER -> None

----------------------------------------------------------------------------
(* What processing one line does to the world.  A world w holds the file   *)
(* system and working directory, and what the line has done so far: the    *)
(* bytes put on the shell's own stdout and stderr, every open of a         *)
(* redirect target, every write to an opened file, every child spawned,    *)
(* the stages run to their end with the bytes each produced, the kinds of  *)
(* error met, whether a builtin set should_exit in its result, whether the *)
(* loop is to break, what was planned and by which route it ran, and the   *)
(* file system and directory the line started in.                          *)

World(files, dir) ==
    [fs |-> files, cwd |-> dir, out |-> <<>>, err |-> <<>>, opens |-> <<>>,
     writes |-> <<>>, children |-> <<>>, ran |-> <<>>, errs |-> {},
     should_exit |-> FALSE, result_exit |-> FALSE, route |-> "none", stages |-> <<>>,
     fs0 |-> files, cwd0 |-> dir]

\* open_redirect_file 515-527; `why` and `stream` only label the entry of w.opens
open_redirect_file_KeepsContent(w, path, mode, why, stream) ==
    LET abs == JoinPath(w.cwd, path)
        ok == CanOpen(abs)
        content == IF abs \notin DOMAIN w.fs THEN <<>> ELSE w.fs[abs]
    IN  [w EXCEPT !.fs = IF ok THEN (abs :> content) @@ w.fs ELSE @,
                  !.opens = Append(@, [path |-> abs, mode |-> mode, ok |-> ok,
                                       why |-> why, stream |-> stream]),
                  !.errs = IF ok THEN @ ELSE @ \cup {"open"}]

open_redirect_file(w, path, mode, why, stream) ==
    LET abs == JoinPath(w.cwd, path)
        ok == CanOpen(abs)
        content == IF mode = "Truncate" \/ abs \notin DOMAIN w.fs THEN <<>> ELSE w.fs[abs]
    IN  [w EXCEPT !.fs = IF ok THEN (abs :> content) @@ w.fs ELSE @,
                  !.opens = Append(@, [path |-> abs, mode |-> mode, ok |-> ok,
                                       why |-> why, stream |-> stream]),
                  !.errs = IF ok THEN @ ELSE @ \cup {"open"}]

\* file.write_all on a file just opened in `mode`
write_all(w, path, mode, bytes, stream) ==
    LET abs == JoinPath(w.cwd, path)
        old == w.fs[abs]
        new == IF mode = "Append" THEN old \o bytes
               ELSE bytes \o SubSeq(old, Len(bytes) + 1, Len(old))
    IN  [w EXCEPT !.fs = (abs :> new) @@ w.fs,
                  !.writes = Append(@, [path |-> abs, stream |-> stream, bytes |-> bytes])]

\* ensure_redirect_files 529-536
ensure_redirect_files(w, redirects) ==
    LET w1 == IF redirects.stdout # None
              THEN open_redirect_file(w, redirects.stdout[1].path,
                                      redirects.stdout[1].mode, "ensure", "stdout")
              ELSE w
    IN  IF redirects.stderr # None
        THEN open_redirect_file(w1, redirects.stderr[1].path,
                                redirects.stderr[1].mode, "ensure", "stderr")
        ELSE w1

\* write_bytes_output 543-566 (write_output 568-570 passes text.as_bytes())
write_bytes_output(w, bytes, stream, redirects) ==
    LET redirection == IF stream = "stdout" THEN redirects.stdout ELSE redirects.stderr
    IN  IF redirection # None
        THEN LET path == redirection[1].path
                 mode == redirection[1].mode
                 w1 == open_redirect_file(w, path, mode, "write", stream)
             IN  IF CanOpen(JoinPath(w.cwd, path))
                 THEN write_all(w1, path, mode, bytes, stream)
                 ELSE w1
        ELSE IF stream = "stdout" THEN [w EXCEPT !.out = @ \o bytes]
        ELSE [w EXCEPT !.err = @ \o bytes]

\* write_output(&format!("{cmd}: command not found\n"), Stdout, redirects)
command_not_found_Exits(w, cmd, redirects, kind) ==
    [write_bytes_output(w, cmd \o <<": command not found\n">>, "stdout", redirects)
        EXCEPT !.errs = @ \cup {kind}, !.should_exit = TRUE]

command_not_found(w, cmd, redirects, kind) ==
    [write_bytes_output(w, cmd \o <<": command not found\n">>, "stdout", redirects)
        EXCEPT !.errs = @ \cup {kind}]

Inherit == [kind |-> "inherit", path |-> <<>>]
Piped == [kind |-> "piped", path |-> <<>>]
ToFile(w, path) == [kind |-> "file", path |-> JoinPath(w.cwd, path)]

Child(idx, cmd, argv, stdin, so, se, waited) ==
    [idx |-> idx, cmd |-> cmd, args |-> argv, stdin |-> stdin, stdout |-> so,
     stderr |-> se, waited |-> waited]

\* what the external program writes to its stdout, given the bytes on its stdin
ExternalOutput(stdin_bytes) == stdin_bytes

\* the wiring of one stream of a Command: the redirect file when it opens (776-786,
\* 640-650), else inherited; the open is logged in the world
WireOpen(w, redirection, stream) ==
    IF redirection # None
    THEN open_redirect_file(w, redirection[1].path, redirection[1].mode, "spawn", stream)
    ELSE w

Wire(w, redirection) ==
    IF redirection # None /\ CanOpen(JoinPath(w.cwd, redirection[1].path))
    THEN ToFile(w, redirection[1].path)
    ELSE Inherit

\* what is typed at the terminal while a child reads it
TtyInput == <<"o", "\n">>

StdinTty == [kind |-> "inherit", bytes |-> TtyInput]
StdinPiped(bytes) == [kind |-> "piped", bytes |-> bytes]

\* a child writes `bytes` to the stdout it was given; `mode` is the mode its file was opened in
ChildWritesStdout(w, wiring, mode, bytes) ==
    IF bytes = <<>> \/ wiring.kind = "piped" THEN w
    ELSE IF wiring.kind = "file" THEN write_all(w, wiring.path, mode, bytes, "stdout")
    ELSE [w EXCEPT !.out = @ \o bytes]

RedirectMode(redirection) == IF redirection = None THEN "Truncate" ELSE redirection[1].mode

Ran(idx, so, se) == [idx |-> idx, stdout |-> so, stderr |-> se]

NoteResult(w, cmd, result) ==
    [w EXCEPT !.cwd = result.cwd,
              !.result_exit = @ \/ result.should_exit,
              !.errs = IF cmd = <<"c", "d">> /\ result.stderr # <<>> THEN @ \cup {"cd"} ELSE @]

----------------------------------------------------------------------------
(* execute_external_pipeline 609-673.  failAt is the stage whose spawn     *)
(* fails (0: none does).                                                   *)

\* the first loop (614-624)
RECURSIVE external_resolve(_, _, _)
external_resolve(w, stages, i) ==
    IF i > Len(stages) THEN [w |-> w, ok |-> TRUE]
    ELSE IF find_in_path(stages[i].cmd) = None
    THEN [w |-> command_not_found(w, stages[i].cmd, stages[i].redirects, "lookup"),
          ok |-> FALSE]
    ELSE external_resolve(ensure_redirect_files(w, stages[i].redirects), stages, i + 1)

\* the second loop (630-668)
RECURSIVE external_spawn(_, _, _, _)
external_spawn(w, stages, idx, failAt) ==
    IF idx > Len(stages) THEN [w |-> w, ok |-> TRUE]
    ELSE LET stage == stages[idx]
             is_last == idx = Len(stages)
             w1 == IF is_last THEN WireOpen(w, stage.redirects.stdout, "stdout") ELSE w
             w2 == WireOpen(w1, stage.redirects.stderr, "stderr")
             so == IF is_last THEN Wire(w, stage.redirects.stdout) ELSE Piped
             se == Wire(w, stage.redirects.stderr)
             si == IF idx = 1 THEN StdinTty
                   ELSE StdinPiped(ExternalOutput(w.children[idx - 1].stdin.bytes))
         IN  IF failAt = idx
             THEN [w |-> command_not_found(w2, stage.cmd, stage.redirects, "spawn"),
                   ok |-> FALSE]
             ELSE external_spawn(
                      [w2 EXCEPT !.children =
                          Append(@, Child(idx, stage.cmd, stage.args, si, so, se, FALSE))],
                      stages, idx + 1, failAt)

\* the children run, and the last loop waits on each (670-672)
external_wait(w, stages) ==
    LET n == Len(w.children)
        w1 == ChildWritesStdout(w, w.children[n].stdout,
                                RedirectMode(stages[n].redirects.stdout),
                                ExternalOutput(w.children[n].stdin.bytes))
    IN  [w1 EXCEPT !.children = [i \in 1..n |-> [w.children[i] EXCEPT !.waited = TRUE]],
                   !.ran = [i \in 1..n |->
                               Ran(i, ExternalOutput(w.children[i].stdin.bytes), <<>>)]]

execute_external_pipeline(w, stages, failAt) ==
    IF stages = <<>> THEN w
    ELSE LET r1 == external_resolve(w, stages, 1)
         IN  IF ~r1.ok THEN r1.w
             ELSE LET r2 == external_spawn(r1.w, stages, 1, failAt)
                  IN  IF ~r2.ok THEN r2.w ELSE external_wait(r2.w, stages)

----------------------------------------------------------------------------
(* execute_mixed_pipeline 675-717, with run_external_capture 572-591       *)

RECURSIVE mixed_from_DropsBuffer(_, _, _, _, _)
mixed_from_DropsBuffer(w, stages, idx, stdin_buffer, failAt) ==
    IF idx > Len(stages) THEN w
    ELSE LET stage == stages[idx]
             w1 == ensure_redirect_files(w, stage.redirects)
             is_last == idx = Len(stages)
             b == run_builtin(w1.cwd, stage.cmd, stage.args, FALSE, FALSE)
         IN  IF b = None /\ find_in_path(stage.cmd) = None
             THEN command_not_found(w1, stage.cmd, stage.redirects, "lookup")
             ELSE IF b = None /\ failAt = idx
             THEN command_not_found(w1, stage.cmd, stage.redirects, "spawn")
             ELSE LET result == IF b # None THEN b[1]
                                ELSE CommandResult(ExternalOutput(stdin_buffer), <<>>,
                                                   FALSE, w1.cwd)
                      w2 == IF b # None THEN NoteResult(w1, stage.cmd, result)
                            ELSE [w1 EXCEPT !.children =
                                     Append(@, Child(idx, stage.cmd, stage.args,
                                                     StdinPiped(stdin_buffer),
                                                     Piped, Piped, TRUE))]
                      w3 == IF result.stderr # <<>>
                            THEN write_bytes_output(w2, result.stderr, "stderr", stage.redirects)
                            ELSE w2
                      w4 == [w3 EXCEPT !.ran = Append(@, Ran(idx, result.stdout,
                                                                  result.stderr))]
                  IN  IF is_last
                      THEN write_bytes_output(w4, result.stdout, "stdout", stage.redirects)
                      ELSE mixed_from_DropsBuffer(w4, stages, idx + 1, <<>>, failAt)

RECURSIVE mixed_from(_, _, _, _, _)
mixed_from(w, stages, idx, stdin_buffer, failAt) ==
    IF idx > Len(stages) THEN w
    ELSE LET stage == stages[idx]
             w1 == ensure_redirect_files(w, stage.redirects)
             is_last == idx = Len(stages)
             b == run_builtin(w1.cwd, stage.cmd, stage.args, FALSE, FALSE)
         IN  IF b = None /\ find_in_path(stage.cmd) = None
             THEN command_not_found(w1, stage.cmd, stage.redirects, "lookup")
             ELSE IF b = None /\ failAt = idx
             THEN command_not_found(w1, stage.cmd, stage.redirects, "spawn")
             ELSE LET result == IF b # None THEN b[1]
                                ELSE CommandResult(ExternalOutput(stdin_buffer), <<>>,
                                                   FALSE, w1.cwd)
                      w2 == IF b # None THEN NoteResult(w1, stage.cmd, result)
                            ELSE [w1 EXCEPT !.children =
                                     Append(@, Child(idx, stage.cmd, stage.args,
                                                     StdinPiped(stdin_buffer),
                                                     Piped, Piped, TRUE))]
                      w3 == IF result.stderr # <<>>
                            THEN write_bytes_output(w2, result.stderr, "stderr", stage.redirects)
                            ELSE w2
                      w4 == [w3 EXCEPT !.ran = Append(@, Ran(idx, result.stdout,
                                                                  result.stderr))]
                  IN  IF is_last
                      THEN write_bytes_output(w4, result.stdout, "stdout", stage.redirects)
                      ELSE mixed_from(w4, stages, idx + 1, result.stdout, failAt)

execute_mixed_pipeline(w, stages, failAt) == mixed_from(w, stages, 1, <<>>, failAt)

\* execute_pipeline 719-730
execute_pipeline(w, segments, failAt) ==
    LET stages == build_pipeline_stages(segments)
    IN  IF stages = <<>> THEN [w EXCEPT !.route = "pipeline"]
        ELSE IF \A i \in 1..Len(stages) : ~is_builtin_command(stages[i].cmd)
        THEN execute_external_pipeline([w EXCEPT !.route = "external", !.stages = stages],
                                       stages, failAt)
        ELSE execute_mixed_pipeline([w EXCEPT !.route = "mixed", !.stages = stages],
                                    stages, failAt)

----------------------------------------------------------------------------
(* One iteration of the loop of main after read_user_input returned the    *)
(* line: 744-803                                                           *)

\* a builtin as the sole command (759-770)
main_builtin(w, cmd, result, redirects) ==
    LET w1 == NoteResult(w, cmd, result)
        w2 == IF result.stdout # <<>>
              THEN write_bytes_output(w1, result.stdout, "stdout", redirects) ELSE w1
        w3 == IF result.stderr # <<>>
              THEN write_bytes_output(w2, result.stderr, "stderr", redirects) ELSE w2
    IN  [w3 EXCEPT !.should_exit = result.should_exit,
                   !.ran = <<Ran(1, result.stdout, result.stderr)>>]

\* an external command as the sole command (772-797)
main_external(w, cmd, argv, redirects, failAt) ==
    LET w1 == WireOpen(w, redirects.stdout, "stdout")
        w2 == WireOpen(w1, redirects.stderr, "stderr")
        so == Wire(w, redirects.stdout)
        se == Wire(w, redirects.stderr)
    IN  IF failAt = 1 THEN command_not_found(w2, cmd, redirects, "spawn")
        ELSE ChildWritesStdout(
                 [w2 EXCEPT !.children = Append(@, Child(1, cmd, argv, StdinTty, so, se, TRUE)),
                            !.ran = <<Ran(1, ExternalOutput(TtyInput), <<>>)>>],
                 so, RedirectMode(redirects.stdout), ExternalOutput(TtyInput))

main_single(w, segment, failAt) ==
    LET pr == parse_redirections(segment)
    IN  IF pr.args = <<>> THEN w
        ELSE LET cmd == Head(pr.args)
                 argv == Tail(pr.args)
                 redirects == pr.redirects
                 w0 == [w EXCEPT !.route = "single",
                                 !.stages = <<PipelineStage(cmd, argv, redirects)>>]
                 w1 == ensure_redirect_files(w0, redirects)
                 b == run_builtin(w1.cwd, cmd, argv, TRUE, TRUE)
             IN  IF b # None THEN main_builtin(w1, cmd, b[1], redirects)
                 ELSE IF find_in_path(cmd) # None
                 THEN main_external(w1, cmd, argv, redirects, failAt)
                 ELSE command_not_found(w1, cmd, redirects, "lookup")

main_iteration(w, inp, failAt) ==
    LET tokens == parse_line(inp)
        pipeline_segments == split_pipeline(tokens)
    IN  IF Len(pipeline_segments) > 1
        THEN execute_pipeline(w, pipeline_segments, failAt)
        ELSE main_single(w, pipeline_segments[Len(pipeline_segments)], failAt)

----------------------------------------------------------------------------
(* The raw-mode guard: RawModeGuard::new 111-131, Drop 135-141             *)

Cooked == [ICANON |-> TRUE, ECHO |-> TRUE, ICRNL |-> TRUE, IXON |-> TRUE,
           VMIN |-> 4, VTIME |-> 2]

\* the attributes `raw` built from `original` (119-123)
MakeRaw(original) ==
    [original EXCEPT !.ICANON = FALSE, !.ECHO = FALSE, !.ICRNL = FALSE, !.IXON = FALSE,
                     !.VMIN = 1, !.VTIME = 0]

RawModeGuard(fd, original) == [fd |-> fd, original |-> original]

\* drop of `_raw_mode` when main returns or unwinds: tcsetattr(fd, TCSANOW, &original)
DropGuard_Forgets(guard, attrs) == attrs

DropGuard(guard, attrs) == IF guard = None THEN attrs ELSE guard[1].original

----------------------------------------------------------------------------
(* The lines typed.  A line is one segment, or up to MaxStages segments    *)
(* joined by ` | `; a segment is a command with its argument followed by   *)
(* redirections, or nothing at all.  `x` names no command and no           *)
(* directory, so `x/f` cannot be opened.                                   *)

CmdParts ==
    { << <<"e", "x", "i", "t">> >>,
      << <<"c", "d">>, <<"d">> >>,
      << <<"c", "d">>, <<"x">> >>,
      << <<"e", "c", "h", "o">>, <<"d">> >>,
      << <<"c", "a", "t">> >>,
      << <<"x">> >> }

RedirParts ==
    { << >>,
      << <<">", "f">> >>,
      << <<">", ">", "f">> >>,
      << <<">", "x", "/", "f">> >>,
      << <<"2", ">", "f">> >>,
      << <<">", "f">>, <<"2", ">", "f">> >> }

\* in a pipeline `cd` never reaches set_current_dir, so one `cd` is enough there
PipeCmdParts == CmdParts \ { << <<"c", "d">>, <<"x">> >> }

PipeRedirParts ==
    { << >>,
      << <<">", "f">> >>,
      << <<"2", ">", "f">> >> }

Segments == { << >> } \cup { c \o r : c \in CmdParts, r \in RedirParts }

PipeSegments == { << >> } \cup { c \o r : c \in PipeCmdParts, r \in PipeRedirParts }

\* the words of the segments with a `|` between two segments
RECURSIVE PipeWords(_)
PipeWords(segs) ==
    IF Len(segs) = 1 THEN segs[1]
    ELSE segs[1] \o << <<"|">> >> \o PipeWords(Tail(segs))

LineOf(segs) == JoinWith(PipeWords(segs), <<" ">>)

SingleLines == { LineOf(<<s>>) : s \in Segments }

PipeLines ==
    UNION { { LineOf(segs) : segs \in [1..k -> PipeSegments] } : k \in 2..MaxStages }

Lines == SingleLines \cup PipeLines

\* the stages whose spawn can fail: the external commands found on the path
RECURSIVE SpawnPoints(_, _)
SpawnPoints(stages, i) ==
    IF i > Len(stages) THEN {}
    ELSE (IF ~is_builtin_command(stages[i].cmd) /\ find_in_path(stages[i].cmd) # None
          THEN {i} ELSE {}) \cup SpawnPoints(stages, i + 1)

FailChoices(inp) ==
    {0} \cup SpawnPoints(build_pipeline_stages(split_pipeline(parse_line(inp))), 1)

----------------------------------------------------------------------------
(* main 732-805                                                            *)

NoPlan == [segments |-> <<>>, parsed |-> <<>>, stages |-> <<>>]

NoStep == [state |-> "none", ch |-> "", at |-> 0, flushed |-> FALSE, appended |-> <<>>]

NoRun == World(<<>>, Root)

tokidle == <<pos, state, current, current_quoted, args, cur_how, how, last_step>>

Init ==
    /\ pc = "start"
    /\ input = <<>>
    /\ pos = 1
    /\ state = "Normal"
    /\ current = <<>>
    /\ current_quoted = FALSE
    /\ args = <<>>
    /\ cur_how = <<>>
    /\ how = <<>>
    /\ last_step = NoStep
    /\ raw_mode = None
    /\ termios = Cooked
    /\ cwd = Root
    /\ fs = <<>>
    /\ nlines = 0
    /\ run = NoRun
    /\ reason = "running"
    /\ home = Some(DirD)
    /\ path_names = Executables
    /\ plan = NoPlan
    /\ pending_multi = None
    /\ edits = <<>>

\* let _raw_mode = RawModeGuard::new(STDIN_FILENO).ok()  (734)
Startup ==
    /\ pc = "start"
    /\ \E isatty \in BOOLEAN :
          IF isatty
          THEN /\ raw_mode' = Some(RawModeGuard(0, termios))
               /\ termios' = MakeRaw(termios)
          ELSE /\ raw_mode' = None
               /\ termios' = termios
    /\ pc' = "prompt"
    /\ UNCHANGED <<input, tokidle, cwd, fs, nlines, run, reason, others>>

\* the loop ends and main returns or unwinds, dropping `_raw_mode`
Leave(why) ==
    /\ pc' = "done"
    /\ reason' = why
    /\ termios' = DropGuard(raw_mode, termios)

\* print!("{PROMPT}"); io::stdout().flush().unwrap()  (737-738)
Prompt ==
    /\ pc = "prompt"
    /\ pc' = "read"
    /\ input' = <<>>
    /\ run' = NoRun
    /\ UNCHANGED <<tokidle, raw_mode, termios, cwd, fs, nlines, reason, others>>

PromptPanics ==
    /\ pc = "prompt"
    /\ Leave("panic")
    /\ input' = <<>>
    /\ run' = NoRun
    /\ UNCHANGED <<tokidle, raw_mode, cwd, fs, nlines, others>>

\* read_user_input() is Ok(None): read_exact met end of input (200), or 0x04 was
\* typed on an empty buffer (221-226); `break` (740-742)
ReadEof ==
    /\ pc = "read"
    /\ Leave("eof")
    /\ UNCHANGED <<input, tokidle, raw_mode, cwd, fs, nlines, run, others>>

\* read_user_input() is Err(e) (201): unwrap panics (740)
ReadPanics ==
    /\ pc = "read"
    /\ Leave("panic")
    /\ UNCHANGED <<input, tokidle, raw_mode, cwd, fs, nlines, run, others>>

\* read_user_input() is Ok(Some(line)) and the line is processed (744-803)
RunOne(lines, max) ==
    /\ pc = "read"
    /\ nlines < max
    /\ \E line \in lines : \E failAt \in FailChoices(line) :
          /\ run' = main_iteration(World(fs, cwd), line, failAt)
          /\ input' = line
    /\ fs' = run'.fs
    /\ cwd' = run'.cwd
    /\ IF run'.should_exit
       THEN Leave("exit")
       ELSE pc' = "prompt" /\ UNCHANGED <<termios, reason>>
    /\ nlines' = nlines + 1
    /\ UNCHANGED <<tokidle, raw_mode, others>>

\* any line, one stage or a pipeline
RunLine == RunOne(Lines, MaxLines)

\* a line of one stage, in longer sessions
RunSingleLine == RunOne(SingleLines, MaxSession)

Next == Startup \/ Prompt \/ PromptPanics \/ ReadEof \/ ReadPanics \/ RunLine

NextSession ==
    Startup \/ Prompt \/ PromptPanics \/ ReadEof \/ ReadPanics \/ RunSingleLine

vars == <<pc, tokvars, raw_mode, termios, cwd, fs, nlines, run, reason, others>>

replvars == <<raw_mode, termios, cwd, fs, nlines, run, reason>>

Spec == Init /\ [][Next]_vars

SpecSession == Init /\ [][NextSession]_vars

----------------------------------------------------------------------------
(* Sessions of `cd` and `pwd` lines, with HOME set to /d or unset.         *)

CdCmdParts ==
    { << <<"c", "d">> >>,
      << <<"c", "d">>, <<"d">> >>,
      << <<"c", "d">>, <<"x">> >>,
      << <<"c", "d">>, <<"~">> >>,
      << <<"c", "d">>, <<"/">> >>,
      << <<"p", "w", "d">> >> }

CdRedirParts ==
    { << >>,
      << <<">", "f">> >>,
      << <<"2", ">", "f">> >>,
      << <<"2", ">", "x", "/", "f">> >> }

CdLines == { LineOf(<<c \o r>>) : c \in CdCmdParts, r \in CdRedirParts }

InitCd ==
    /\ pc = "start"
    /\ input = <<>>
    /\ pos = 1
    /\ state = "Normal"
    /\ current = <<>>
    /\ current_quoted = FALSE
    /\ args = <<>>
    /\ cur_how = <<>>
    /\ how = <<>>
    /\ last_step = NoStep
    /\ raw_mode = None
    /\ termios = Cooked
    /\ cwd = Root
    /\ fs = <<>>
    /\ nlines = 0
    /\ run = NoRun
    /\ reason = "running"
    /\ home \in {None, Some(DirD)}
    /\ path_names = Executables
    /\ plan = NoPlan
    /\ pending_multi = None
    /\ edits = <<>>

\* a `cd` or `pwd` line
RunCdLine == RunOne(CdLines, MaxCd)

NextCd == Startup \/ Prompt \/ PromptPanics \/ ReadEof \/ ReadPanics \/ RunCdLine

SpecCd == InitCd /\ [][NextCd]_vars

----------------------------------------------------------------------------
(* The planner applied to every stream of at most MaxTokens tokens of      *)
(* PlanTokens: split_pipeline, then parse_redirections on each segment and *)
(* build_pipeline_stages on them all.  A token's text is never empty       *)
(* (parse_line pushes a token only when the accumulator is not, 296, 340). *)

PlanTokens ==
    { ParsedToken(<<"a">>, FALSE),
      ParsedToken(<<"|">>, FALSE),
      ParsedToken(<<"|">>, TRUE),
      ParsedToken(<<"a", "|", "b">>, FALSE),
      ParsedToken(<<">">>, FALSE),
      ParsedToken(<<">">>, TRUE),
      ParsedToken(<<"2", ">", ">">>, FALSE),
      ParsedToken(<<"1", ">", ">">>, FALSE),
      ParsedToken(<<"1", ">", "f">>, FALSE),
      ParsedToken(<<">", ">", "g">>, FALSE),
      ParsedToken(<<"2", ">", "e">>, FALSE) }

PlanInit ==
    /\ pc = "tokens"
    /\ args \in SeqsUpTo(PlanTokens, MaxTokens)
    /\ input = <<>>
    /\ pos = 1
    /\ state = "Normal"
    /\ current = <<>>
    /\ current_quoted = FALSE
    /\ cur_how = <<>>
    /\ how = <<>>
    /\ last_step = NoStep
    /\ raw_mode = None
    /\ termios = Cooked
    /\ cwd = Root
    /\ fs = <<>>
    /\ nlines = 0
    /\ run = NoRun
    /\ reason = "running"
    /\ home = Some(DirD)
    /\ path_names = Executables
    /\ plan = NoPlan
    /\ pending_multi = None
    /\ edits = <<>>

\* let mut pipeline_segments = split_pipeline(tokens)  (745)
SplitPipeline ==
    /\ pc = "tokens"
    /\ plan' = [plan EXCEPT !.segments = split_pipeline(args)]
    /\ pc' = "segments"
    /\ UNCHANGED <<tokvars, replvars, home, pending_multi, edits, path_names>>

\* parse_redirections(segment) on every segment (596, 752), and the stages built of them
PlanStages ==
    /\ pc = "segments"
    /\ plan' = [plan EXCEPT
                   !.parsed = [i \in 1..Len(plan.segments) |->
                                  parse_redirections(plan.segments[i])],
                   !.stages = build_pipeline_stages(plan.segments)]
    /\ pc' = "planned"
    /\ UNCHANGED <<tokvars, replvars, home, pending_multi, edits, path_names>>

PlanNext == SplitPipeline \/ PlanStages

SpecPlan == PlanInit /\ [][PlanNext]_vars

----------------------------------------------------------------------------
(* The line editor: read_user_input 191-238 with complete_buffer 145-188,  *)
(* completion_matches 37-70 and longest_common_prefix 73-95.  A byte is a  *)
(* number; text printed is kept per print! call, a literal of the format   *)
(* string as one element.                                                  *)

\* the characters of the bytes 32..126, in order (byte 96 written by its code)
AsciiPrintable ==
    <<" ", "!", "\"", "#", "$", "%", "&", "'", "(", ")", "*", "+",
       ",", "-", ".", "/", "0", "1", "2", "3", "4", "5", "6", "7",
       "8", "9", ":", ";", "<", "=", ">", "?", "@", "A", "B", "C",
       "D", "E", "F", "G", "H", "I", "J", "K", "L", "M", "N", "O",
       "P", "Q", "R", "S", "T", "U", "V", "W", "X", "Y", "Z", "[",
       "\\", "]", "^", "_", "\\x60", "a", "b", "c", "d", "e", "f", "g",
       "h", "i", "j", "k", "l", "m", "n", "o", "p", "q", "r", "s",
       "t", "u", "v", "w", "x", "y", "z", "{", "|", "}", "~" >>

\* `ch as char` for a printable byte
Chr(byte) == AsciiPrintable[byte - 31]

\* the byte of a printable character
Ord(c) == CHOOSE byte \in 32..126 : Chr(byte) = c

\* ch.is_ascii_graphic() || ch == b' '  (228)
is_printable(byte) == byte \in 33..126 \/ byte = 32

COMPLETION_BUILTINS == { <<"e", "c", "h", "o">>, <<"e", "x", "i", "t">> }

\* the order of str: byte by byte, a proper prefix first
RECURSIVE StrLess(_, _)
StrLess(a, b) ==
    IF b = <<>> THEN FALSE
    ELSE IF a = <<>> THEN TRUE
    ELSE IF Head(a) # Head(b) THEN Ord(Head(a)) < Ord(Head(b))
    ELSE StrLess(Tail(a), Tail(b))

\* BTreeSet::into_iter: the words of the set in ascending order
RECURSIVE Ascending(_)
Ascending(words) ==
    IF words = {} THEN <<>>
    ELSE LET least == CHOOSE w \in words : \A v \in words \ {w} : StrLess(w, v)
         IN  <<least>> \o Ascending(words \ {least})

\* completion_matches 37-70: the builtins and the executables of PATH that start with prefix
completion_matches(prefix) ==
    Ascending({ w \in COMPLETION_BUILTINS \cup path_names : StartsWith(w, prefix) })

\* the inner loop of longest_common_prefix (82-88)
RECURSIVE common_prefix(_, _)
common_prefix(a, b) ==
    IF a = <<>> \/ b = <<>> \/ Head(a) # Head(b) THEN <<>>
    ELSE <<Head(a)>> \o common_prefix(Tail(a), Tail(b))

\* the outer loop of longest_common_prefix (80-93), from word k with `prefix` so far
RECURSIVE lcp_from(_, _, _)
lcp_from(words, k, prefix) ==
    IF k > Len(words) \/ prefix = <<>> THEN prefix
    ELSE lcp_from(words, k + 1, common_prefix(prefix, words[k]))

\* longest_common_prefix 73-95
longest_common_prefix_First(words) ==
    IF words = <<>> THEN <<>> ELSE words[1]

longest_common_prefix(words) ==
    IF words = <<>> THEN <<>> ELSE lcp_from(words, 2, words[1])

\* print!("\x07")  (99)
Bell == <<"\\x07">>

\* what one iteration of the loop of read_user_input leaves: the buffer, the pending
\* prefix, the text printed, and whether the loop goes on or what it returns
Edited(buffer, pending, out, ret) ==
    [input |-> buffer, pending_multi |-> pending, out |-> out, ret |-> ret]

\* complete_buffer 145-188
complete_buffer_ListsAtOnce(buffer, pending) ==
    IF \E i \in 1..Len(buffer) : is_whitespace(buffer[i])
    THEN Edited(buffer, None, Bell, "loop")
    ELSE LET prefix == buffer
             matches == completion_matches(prefix)
             lcp == longest_common_prefix(matches)
         IN  IF matches = <<>> THEN Edited(buffer, None, Bell, "loop")
             ELSE IF Len(matches) = 1
             THEN Edited(matches[1] \o <<" ">>, None,
                         SubSeq(matches[1], Len(prefix) + 1, Len(matches[1])) \o <<" ">>,
                         "loop")
             ELSE IF Len(lcp) > Len(prefix)
             THEN Edited(lcp, None, SubSeq(lcp, Len(prefix) + 1, Len(lcp)), "loop")
             ELSE Edited(buffer, None,
                         <<"\r\n">> \o JoinWith(matches, <<"  ">>) \o <<"\r\n">>
                            \o PROMPT \o buffer,
                         "loop")

complete_buffer(buffer, pending) ==
    IF \E i \in 1..Len(buffer) : is_whitespace(buffer[i])
    THEN Edited(buffer, None, Bell, "loop")
    ELSE LET prefix == buffer
             matches == completion_matches(prefix)
             lcp == longest_common_prefix(matches)
         IN  IF matches = <<>> THEN Edited(buffer, None, Bell, "loop")
             ELSE IF Len(matches) = 1
             THEN Edited(matches[1] \o <<" ">>, None,
                         SubSeq(matches[1], Len(prefix) + 1, Len(matches[1])) \o <<" ">>,
                         "loop")
             ELSE IF Len(lcp) > Len(prefix)
             THEN Edited(lcp, None, SubSeq(lcp, Len(prefix) + 1, Len(lcp)), "loop")
             ELSE IF pending = Some(prefix)
             THEN Edited(buffer, None,
                         <<"\r\n">> \o JoinWith(matches, <<"  ">>) \o <<"\r\n">>
                            \o PROMPT \o buffer,
                         "loop")
             ELSE Edited(buffer, Some(prefix), Bell, "loop")

\* the arm `127 | 8` (211-218)
backspace_KeepsPending(buffer, pending) ==
    IF buffer # <<>>
    THEN Edited(SubSeq(buffer, 1, Len(buffer) - 1), pending, <<"\\x08 \\x08">>, "loop")
    ELSE Edited(buffer, pending, <<>>, "loop")

backspace(buffer, pending) ==
    IF buffer # <<>>
    THEN Edited(SubSeq(buffer, 1, Len(buffer) - 1), None, <<"\\x08 \\x08">>, "loop")
    ELSE Edited(buffer, None, <<>>, "loop")

\* the arm `4` (220-226)
ctrl_d_Always(buffer, pending) == Edited(buffer, pending, <<"\r\n">>, "eof")

ctrl_d(buffer, pending) ==
    IF buffer = <<>> THEN Edited(buffer, pending, <<"\r\n">>, "eof")
    ELSE Edited(buffer, pending, <<>>, "loop")

\* the match on the byte read (204-236)
on_byte(byte, buffer, pending) ==
    IF byte \in {10, 13} THEN Edited(buffer, pending, <<"\r\n">>, "line")
    ELSE IF byte = 9 THEN complete_buffer(buffer, pending)
    ELSE IF byte \in {127, 8} THEN backspace(buffer, pending)
    ELSE IF byte = 4 THEN ctrl_d(buffer, pending)
    ELSE IF is_printable(byte)
    THEN Edited(Append(buffer, Chr(byte)), None, <<Chr(byte)>>, "loop")
    ELSE Edited(buffer, pending, <<>>, "loop")

\* the bytes typed: newline, return, Tab, DEL, backspace, Ctrl-D, escape, `c`, `e`, space
Keys == {10, 13, 9, 127, 8, 4, 27, 99, 101, 32}

\* what PATH holds while a line is edited: /bin as it is, or with `ca` beside `cat`
PathChoices == { Executables, Executables \cup { <<"c", "a">> } }

Edit(byte, before, pending_before, e) ==
    [byte |-> byte, before |-> before, pending_before |-> pending_before,
     input |-> e.input, pending_multi |-> e.pending_multi, out |-> e.out, ret |-> e.ret]

EditInit ==
    /\ pc = "edit"
    /\ input = <<>>
    /\ pending_multi = None
    /\ edits = <<>>
    /\ pos = 1
    /\ state = "Normal"
    /\ current = <<>>
    /\ current_quoted = FALSE
    /\ args = <<>>
    /\ cur_how = <<>>
    /\ how = <<>>
    /\ last_step = NoStep
    /\ raw_mode = Some(RawModeGuard(0, Cooked))
    /\ termios = MakeRaw(Cooked)
    /\ cwd = Root
    /\ fs = <<>>
    /\ nlines = 0
    /\ run = NoRun
    /\ reason = "running"
    /\ home = Some(DirD)
    /\ path_names \in PathChoices
    /\ plan = NoPlan

\* one iteration of the loop of read_user_input: read_exact gives a byte (197-199)
EditKey ==
    /\ pc = "edit"
    /\ Len(edits) < MaxKeys
    /\ \E byte \in Keys :
          LET e == on_byte(byte, input, pending_multi)
          IN  /\ input' = e.input
              /\ pending_multi' = e.pending_multi
              /\ edits' = Append(edits, Edit(byte, input, pending_multi, e))
              /\ pc' = IF e.ret = "loop" THEN "edit" ELSE e.ret
    /\ UNCHANGED <<tokidle, replvars, home, plan, path_names>>

\* read_exact meets the end of the input: Ok(None) (200)
EditEndOfInput ==
    /\ pc = "edit"
    /\ pc' = "eof"
    /\ UNCHANGED <<tokvars, replvars, others>>

\* main takes Ok(None): `break` (740-742)
EditBreak ==
    /\ pc = "eof"
    /\ Leave("eof")
    /\ UNCHANGED <<tokvars, raw_mode, cwd, fs, nlines, run, others>>

EditNext == EditKey \/ EditEndOfInput \/ EditBreak

SpecEdit == EditInit /\ [][EditNext]_vars

----------------------------------------------------------------------------
(* complete_buffer 145-188 on its own: one Tab on any buffer of at most    *)
(* MaxBuf characters of TabAlphabet, any set of names of NamePool as the   *)
(* executables of PATH, and the pending prefix unset or as a Tab on this   *)
(* buffer just before left it.                                             *)

TabAlphabet == {"c", "a", "e", " "}

\* file names PATH may hold: `ca`, `cat`, `e` and `c a`
NamePool == { <<"c", "a">>, <<"c", "a", "t">>, <<"e">>, <<"c", " ", "a">> }

TabInit ==
    /\ pc = "tab"
    /\ input \in SeqsUpTo(TabAlphabet, MaxBuf)
    /\ path_names \in SUBSET NamePool
    /\ pending_multi \in {None, complete_buffer(input, None).pending_multi}
    /\ edits = <<>>
    /\ pos = 1
    /\ state = "Normal"
    /\ current = <<>>
    /\ current_quoted = FALSE
    /\ args = <<>>
    /\ cur_how = <<>>
    /\ how = <<>>
    /\ last_step = NoStep
    /\ raw_mode = Some(RawModeGuard(0, Cooked))
    /\ termios = MakeRaw(Cooked)
    /\ cwd = Root
    /\ fs = <<>>
    /\ nlines = 0
    /\ run = NoRun
    /\ reason = "running"
    /\ home = Some(DirD)
    /\ plan = NoPlan

\* complete_buffer(&mut input, &mut pending_multi)  (211)
TabKey ==
    /\ pc = "tab"
    /\ LET e == complete_buffer(input, pending_multi)
       IN  /\ input' = e.input
           /\ pending_multi' = e.pending_multi
           /\ edits' = Append(edits, Edit(9, input, pending_multi, e))
    /\ pc' = "tabbed"
    /\ UNCHANGED <<tokidle, replvars, home, plan, path_names>>

TabNext == TabKey

SpecTab == TabInit /\ [][TabNext]_vars

----------------------------------------------------------------------------
(* The tokenizer run one loop iteration at a time, on every line of at     *)
(* most MaxLen characters over TokAlphabet.  cur_how / how record, for     *)
(* every character of the accumulator / of each token, the state the       *)
(* parser was in when it appended it.                                      *)

TokAlphabet == {"a", " ", Quote1, Quote2, Backslash, "|"}

Parser == [pos |-> pos, state |-> state, current |-> current,
           current_quoted |-> current_quoted, args |-> args]

\* how the character appended by an iteration in state st reading ch got there
HowAppended(st, ch, consumed) ==
    CASE st = "Normal" /\ ch = Backslash -> "escaped"
      [] st = "Normal" -> "plain"
      [] st = "Single" -> "single"
      [] st = "Double" /\ consumed = 2 -> "escaped"
      [] st = "Double" -> "double"

TokInit ==
    /\ pc = "parse"
    /\ input \in SeqsUpTo(TokAlphabet, MaxLen)
    /\ pos = 1
    /\ state = "Normal"
    /\ current = <<>>
    /\ current_quoted = FALSE
    /\ args = <<>>
    /\ cur_how = <<>>
    /\ how = <<>>
    /\ last_step = NoStep
    /\ raw_mode = None
    /\ termios = Cooked
    /\ cwd = Root
    /\ fs = <<>>
    /\ nlines = 0
    /\ run = NoRun
    /\ reason = "running"
    /\ home = Some(DirD)
    /\ path_names = Executables
    /\ plan = NoPlan
    /\ pending_multi = None
    /\ edits = <<>>

TokStep ==
    /\ pc = "parse"
    /\ pos <= Len(input)
    /\ LET p == ParseStep(Parser, input)
           flushed == Len(p.args) > Len(args)
           grown == Len(p.current) > Len(current)
           tag == HowAppended(state, input[pos], p.pos - pos)
       IN  /\ pos' = p.pos
           /\ state' = p.state
           /\ current' = p.current
           /\ current_quoted' = p.current_quoted
           /\ args' = p.args
           /\ cur_how' = IF flushed THEN <<>>
                         ELSE IF grown THEN Append(cur_how, tag) ELSE cur_how
           /\ how' = IF flushed THEN Append(how, cur_how) ELSE how
           /\ last_step' = [state |-> state, ch |-> input[pos], at |-> pos,
                            flushed |-> flushed,
                            appended |-> IF grown THEN <<p.current[Len(p.current)]>>
                                         ELSE <<>>]
    /\ UNCHANGED <<pc, input, replvars, others>>

TokEnd ==
    /\ pc = "parse"
    /\ pos > Len(input)
    /\ LET p == ParseEnd(Parser)
           flushed == Len(p.args) > Len(args)
       IN  /\ current' = p.current
           /\ current_quoted' = p.current_quoted
           /\ args' = p.args
           /\ cur_how' = IF flushed THEN <<>> ELSE cur_how
           /\ how' = IF flushed THEN Append(how, cur_how) ELSE how
    /\ pc' = "parsed"
    /\ last_step' = NoStep
    /\ UNCHANGED <<input, pos, state, replvars, others>>

TokNext == TokStep \/ TokEnd

SpecTok == TokInit /\ [][TokNext]_vars

----------------------------------------------------------------------------
(* The state right after a line was processed: `run` is what it did.       *)

EXIT == <<"e", "x", "i", "t">>
CD == <<"c", "d">>

LineProcessed ==
    /\ nlines > 0
    /\ (pc = "prompt" \/ (pc = "done" /\ reason = "exit"))

\* the line holds an unquoted `|` token
HasPipe(inp) == \E i \in 1..Len(parse_line(inp)) : IsPipeToken(parse_line(inp)[i])

\* the line was `exit` as the sole command
SoleExit ==
    /\ run.route = "single"
    /\ run.stages[1].cmd = EXIT
    /\ ~HasPipe(input)

\* the file a redirection of the line names
Target(redirection) == JoinPath(run.cwd0, redirection[1].path)

NotFoundText(cmd) == cmd \o <<": command not found\n">>

----------------------------------------------------------------------------
(* C1: however the REPL ends (exit as the sole command, end of input,      *)
(* Ctrl-D on an empty buffer, a panic of the prompt flush or of the read), *)
(* when raw mode was acquired the terminal attributes at the end are the   *)
(* ones captured before raw mode was entered; and raw mode is on before    *)
(* the first prompt is written, so the terminal is raw whenever the loop   *)
(* runs under a guard.                                                     *)
C1_RawModeRestored ==
    /\ (pc = "done" /\ raw_mode # None)
          => (termios = raw_mode[1].original /\ termios = Cooked)
    /\ (pc \in {"prompt", "read"} /\ raw_mode # None)
          => (termios = MakeRaw(raw_mode[1].original) /\ raw_mode[1].original = Cooked)
    /\ raw_mode = None => termios = Cooked
    /\ pc = "start" => (nlines = 0 /\ raw_mode = None)

\* the loop unwinds by a panic after a line was processed, under a guard
C1_Witness ==
    /\ pc = "done"
    /\ reason = "panic"
    /\ raw_mode # None
    /\ nlines > 0
    /\ termios = Cooked

(* C2: a line holding an unquoted `|` neither ends the REPL nor changes    *)
(* the working directory, whatever builtins its stages are; a builtin      *)
(* result has should_exit set only for `exit` on a line without a pipe.    *)
C2_PipelineBuiltinsMutateNothing ==
    LineProcessed =>
        /\ HasPipe(input) =>
              /\ pc = "prompt"
              /\ cwd = run.cwd0
              /\ ~run.should_exit
              /\ ~run.result_exit
        /\ (run.result_exit \/ run.should_exit) => SoleExit

\* `cd d | exit` ran both builtins to their end
C2_Witness ==
    /\ pc = "prompt"
    /\ HasPipe(input)
    /\ Len(run.stages) = 2
    /\ run.stages[1].cmd = CD /\ run.stages[1].args = << <<"d">> >>
    /\ run.stages[2].cmd = EXIT
    /\ Len(run.ran) = 2
    /\ cwd = Root

(* C3: once a line has been processed, every redirect target in the        *)
(* RedirectSpec of every planned stage exists as a file, also when a stage *)
(* is not found or fails to spawn (stated for the targets that can be      *)
(* opened at all).                                                         *)
C3_EveryTargetExists ==
    LineProcessed =>
        \A i \in 1..Len(run.stages) :
            /\ (run.stages[i].redirects.stdout # None
                   /\ CanOpen(Target(run.stages[i].redirects.stdout)))
                  => Target(run.stages[i].redirects.stdout) \in DOMAIN fs
            /\ (run.stages[i].redirects.stderr # None
                   /\ CanOpen(Target(run.stages[i].redirects.stderr)))
                  => Target(run.stages[i].redirects.stderr) \in DOMAIN fs

(* C4: when a line planned a pipeline of n stages and control is back at   *)
(* the prompt, n children were waited on (all-external path) or n stages   *)
(* were run to their end (mixed path), counted for the lines on which      *)
(* every command resolved and spawned; and on every line no child spawned  *)
(* for it is left unwaited.                                                *)
C4_AllStagesWaited ==
    (LineProcessed /\ HasPipe(input)) =>
        /\ (run.route = "external" /\ run.errs \cap {"lookup", "spawn"} = {}) =>
              /\ Len(run.children) = Len(run.stages)
              /\ Len(run.ran) = Len(run.stages)
        /\ (run.route = "mixed" /\ run.errs \cap {"lookup", "spawn"} = {}) =>
              Len(run.ran) = Len(run.stages)
        /\ \A i \in 1..Len(run.children) : run.children[i].waited

(* C5: when the stdout redirect target of a stage cannot be opened, the    *)
(* stage still runs and what it writes to stdout reaches the shell's own   *)
(* stdout, and nothing is reported; for builtins as for external commands. *)
C5_UnopenableFallsBack ==
    LineProcessed =>
        \A k \in 1..Len(run.ran) :
            LET i == run.ran[k].idx
                redirection == run.stages[i].redirects.stdout
            IN  (i = Len(run.stages) /\ redirection # None /\ ~CanOpen(Target(redirection)))
                   => (run.out = run.ran[k].stdout /\ run.err = run.ran[k].stderr)

----------------------------------------------------------------------------
(* C6: an error met while a line is processed (a lookup miss, a failing cd, *)
(* a redirect target that cannot be opened, a spawn failure, in a single   *)
(* stage or in a pipeline) never ends the loop: control is back at the     *)
(* prompt.  The loop ends only by `exit` as the sole command, by end of    *)
(* input, or by a panic of the prompt flush or of the read, which no line  *)
(* being processed raises.                                                 *)
C6_ErrorsNeverEndTheLoop ==
    /\ (LineProcessed /\ run.errs # {} /\ ~SoleExit) => pc = "prompt"
    /\ pc = "done" => reason \in {"exit", "eof", "panic"}
    /\ (pc = "done" /\ reason = "exit") => (SoleExit /\ run.should_exit)
    /\ (pc = "done" /\ reason \in {"eof", "panic"}) => (run = NoRun /\ input = <<>>)

\* C6 as stated: the loop ends only by `exit` as the sole command or by end of input
C6_EndsOnlyByExitOrEof ==
    /\ (LineProcessed /\ run.errs # {} /\ ~SoleExit) => pc = "prompt"
    /\ pc = "done" => reason \in {"exit", "eof"}
    /\ (pc = "done" /\ reason = "exit") => (SoleExit /\ run.should_exit)

\* back at the prompt after the second stage of a pipeline failed to spawn
C6_Witness ==
    /\ pc = "prompt"
    /\ nlines > 0
    /\ "spawn" \in run.errs
    /\ Len(run.stages) = 2
    /\ Len(run.children) = 1

(* C7: a single-stage line whose command is neither a builtin nor on the   *)
(* search path writes exactly `<cmd>: command not found\n` to the stdout   *)
(* redirect file when one is configured and to the real stdout otherwise,  *)
(* writes nothing to stderr or to a file as stderr, and spawns no child.   *)
C7_NotFoundMessage ==
    (/\ LineProcessed
     /\ run.route = "single"
     /\ ~is_builtin_command(run.stages[1].cmd)
     /\ find_in_path(run.stages[1].cmd) = None)
    => LET redirection == run.stages[1].redirects.stdout
           text == NotFoundText(run.stages[1].cmd)
       IN  /\ IF redirection = None
              THEN run.out = text /\ run.writes = <<>>
              ELSE /\ run.out = <<>>
                   /\ run.writes = <<[path |-> Target(redirection), stream |-> "stdout",
                                      bytes |-> text]>>
           /\ run.err = <<>>
           /\ run.children = <<>>

----------------------------------------------------------------------------
(* C10 is about sessions of single-stage builtin lines that redirect       *)
(* stdout to a file.                                                       *)

\* the line just processed was a single builtin with its stdout redirected to a file
BuiltinToFile ==
    /\ LineProcessed
    /\ run.route = "single"
    /\ is_builtin_command(run.stages[1].cmd)
    /\ Len(run.ran) = 1
    /\ run.stages[1].redirects.stdout # None
    /\ CanOpen(Target(run.stages[1].redirects.stdout))

PriorContent(abs) == IF abs \in DOMAIN run.fs0 THEN run.fs0[abs] ELSE <<>>

\* Truncate leaves the builtin's stdout bytes, Append the prior content followed by them
ContentAsRedirected ==
    LET redirection == run.stages[1].redirects.stdout
        abs == Target(redirection)
    IN  /\ abs \in DOMAIN fs
        /\ fs[abs] = IF redirection[1].mode = "Truncate" THEN run.ran[1].stdout
                     ELSE PriorContent(abs) \o run.ran[1].stdout

\* the line redirects stderr to the file it redirects stdout to
StderrToSameFile ==
    /\ run.stages[1].redirects.stderr # None
    /\ Target(run.stages[1].redirects.stderr) = Target(run.stages[1].redirects.stdout)

(* C10: in any session of single-stage builtin lines redirecting stdout to *)
(* a file, after a line using a Truncate operator the file holds exactly   *)
(* the builtin's stdout bytes, and after a line using an Append operator   *)
(* its prior content followed by those bytes, though the file is opened by *)
(* ensure_redirect_files and again by write_bytes_output; provided the     *)
(* line does not redirect stderr to that same file.                        *)
C10_FileContentAfterRedirect ==
    (BuiltinToFile /\ ~StderrToSameFile) => ContentAsRedirected

\* C10 as stated, for every such line
C10_FileContentAnyStderr ==
    BuiltinToFile => ContentAsRedirected

\* `echo d >f` and then `echo d >>f`: the file holds both outputs
C10_Witness ==
    /\ BuiltinToFile
    /\ nlines = 2
    /\ run.stages[1].redirects.stdout[1].mode = "Append"
    /\ run.ran[1].stdout = <<"d", "\n">>
    /\ PriorContent(Target(run.stages[1].redirects.stdout)) = <<"d", "\n">>
    /\ fs[Target(run.stages[1].redirects.stdout)] = <<"d", "\n", "d", "\n">>

----------------------------------------------------------------------------
(* C8: for every line and every token, quoted is true exactly when at      *)
(* least one character of the token's text was appended in the Single or   *)
(* Double state or right after a Normal-state backslash; the flag starts   *)
(* afresh with every token (the accumulator's flag is the same function of *)
(* the accumulator's characters).                                          *)
C8_QuotedIffSomeCharQuoted ==
    /\ Len(how) = Len(args)
    /\ \A i \in 1..Len(args) :
          /\ Len(how[i]) = Len(args[i].text)
          /\ args[i].quoted = (\E j \in 1..Len(how[i]) : how[i][j] # "plain")
    /\ Len(cur_how) = Len(current)
    /\ current_quoted = (\E j \in 1..Len(cur_how) : cur_how[j] # "plain")

\* `'a' |` : an unquoted token follows a quoted one
C8_Witness ==
    /\ pc = "parsed"
    /\ Len(args) = 2
    /\ args[1].quoted /\ ~args[2].quoted
    /\ args[2].text = <<"|">>

(* C9: no quote character that opened or closed a quoted region is in any  *)
(* token's text: a ' or " in a text was read inside the other kind of      *)
(* quotes or after a backslash; and a whitespace character read inside a   *)
(* quoted region is appended to the accumulator and flushes nothing.       *)
C9_TextQuotesAreLiteral ==
    /\ \A i \in 1..Len(args) : \A j \in 1..Len(args[i].text) :
          /\ j <= Len(how[i])
          /\ args[i].text[j] = Quote1 => how[i][j] \in {"double", "escaped"}
          /\ args[i].text[j] = Quote2 => how[i][j] \in {"single", "escaped"}
    /\ \A j \in 1..Len(current) :
          /\ j <= Len(cur_how)
          /\ current[j] = Quote1 => cur_how[j] \in {"double", "escaped"}
          /\ current[j] = Quote2 => cur_how[j] \in {"single", "escaped"}
    /\ (last_step.state = "Normal" /\ last_step.ch \in {Quote1, Quote2})
          => last_step.appended = <<>>
    /\ (last_step.state = "Single" /\ last_step.ch = Quote1)
          => last_step.appended = <<>>
    /\ (last_step.state = "Double" /\ last_step.ch = Quote2)
          => last_step.appended = <<>>
    /\ (last_step.state \in {"Single", "Double"} /\ is_whitespace(last_step.ch))
          => (~last_step.flushed /\ last_step.appended = <<last_step.ch>>)

\* `'a "` ... : a token holding a space and a double quote read inside single quotes
C9_Witness ==
    /\ pc = "parsed"
    /\ Len(args) = 1
    /\ args[1].text = <<"a", " ", Quote2>>

----------------------------------------------------------------------------
(* C11: a single-stage `cd <target>` line that succeeds leaves the process *)
(* in the target directory, which stays the working directory of the       *)
(* later lines and is what `pwd` prints; one that fails (no such           *)
(* directory, or `~` with HOME unset) leaves the directory unchanged,      *)
(* delivers exactly `cd: <target>: No such file or directory\n` to the     *)
(* stderr destination (the stderr redirect file, or the shell's stderr     *)
(* when there is no redirect or its file cannot be opened) and nothing to  *)
(* stdout; `cd` without argument changes nothing and emits nothing.        *)

\* the directory `cd <target>` is to enter, None when there is none
CdGoal(target) ==
    IF target = <<"~">>
    THEN (IF home = None \/ home[1] \notin Dirs THEN None ELSE home)
    ELSE IF JoinPath(run.cwd0, target) \in Dirs THEN Some(JoinPath(run.cwd0, target))
    ELSE None

\* `text` and nothing else was delivered to the stderr destination of the line
OnlyToStderr(text) ==
    LET redirection == run.stages[1].redirects.stderr
    IN  IF redirection = None
        THEN run.err = text /\ run.writes = <<>>
        ELSE \/ /\ run.err = <<>>
                /\ run.writes = <<[path |-> Target(redirection), stream |-> "stderr",
                                   bytes |-> text]>>
             \/ /\ ~CanOpen(Target(redirection))
                /\ run.err = text
                /\ run.writes = <<>>

C11_CdAndPwd ==
    (LineProcessed /\ run.route = "single") =>
        LET cmd == run.stages[1].cmd
            argv == run.stages[1].args
        IN  /\ (cmd = CD /\ argv = <<>>) =>
                  (cwd = run.cwd0 /\ run.out = <<>> /\ run.err = <<>> /\ run.writes = <<>>)
            /\ (cmd = CD /\ argv # <<>> /\ CdGoal(argv[1]) # None) =>
                  (cwd = CdGoal(argv[1])[1] /\ run.out = <<>> /\ run.err = <<>>
                     /\ run.writes = <<>>)
            /\ (cmd = CD /\ argv # <<>> /\ CdGoal(argv[1]) = None) =>
                  (cwd = run.cwd0 /\ run.out = <<>>
                     /\ OnlyToStderr(<<"cd: ">> \o argv[1]
                                        \o <<": No such file or directory\n">>))
            /\ cmd = <<"p", "w", "d">> =>
                  (cwd = run.cwd0 /\ run.ran[1].stdout = run.cwd0 \o <<"\n">>)

(* C12: every stage the planner makes has a non-empty command name: a     *)
(* segment whose argv is empty once its redirections are taken out (two    *)
(* pipes in a row, a pipe first or last, only redirections) makes no       *)
(* stage, the other segments make one stage each, in order, and no word of *)
(* an argv is the empty string.                                            *)

\* the segments that keep at least one word, in order
RECURSIVE KeptSegments(_)
KeptSegments(i) ==
    IF i = 0 THEN <<>>
    ELSE IF plan.parsed[i].args = <<>> THEN KeptSegments(i - 1)
    ELSE Append(KeptSegments(i - 1), i)

C12_StagesHaveCommands ==
    pc = "planned" =>
        /\ \A k \in 1..Len(plan.stages) : plan.stages[k].cmd # <<>>
        /\ \A i \in 1..Len(plan.parsed) : \A j \in 1..Len(plan.parsed[i].args) :
              plan.parsed[i].args[j] # <<>>
        /\ Len(plan.stages) = Len(KeptSegments(Len(plan.parsed)))
        /\ \A k \in 1..Len(plan.stages) :
              LET pr == plan.parsed[KeptSegments(Len(plan.parsed))[k]]
              IN  /\ <<plan.stages[k].cmd>> \o plan.stages[k].args = pr.args
                  /\ plan.stages[k].redirects = pr.redirects

\* `| 1>f | a`: of three segments only the last makes a stage
C12_Witness ==
    /\ pc = "planned"
    /\ Len(plan.segments) = 3
    /\ plan.segments[1] = <<>>
    /\ plan.parsed[2].args = <<>> /\ plan.segments[2] # <<>>
    /\ Len(plan.stages) = 1
    /\ plan.stages[1].cmd = <<"a">>

(* C13: for a token stream with k tokens that are unquoted and whose text  *)
(* is exactly `|`, split_pipeline returns k+1 segments, and the segments   *)
(* put one after another are the stream without those k tokens; a quoted   *)
(* `|` and a token that only contains `|` stay in their segment.           *)

\* the tokens that are not pipe separators, in order
RECURSIVE WithoutPipes(_)
WithoutPipes(tokens) ==
    IF tokens = <<>> THEN <<>>
    ELSE IF ~tokens[1].quoted /\ tokens[1].text = <<"|">> THEN WithoutPipes(Tail(tokens))
    ELSE <<tokens[1]>> \o WithoutPipes(Tail(tokens))

RECURSIVE Flatten(_)
Flatten(seqs) == IF seqs = <<>> THEN <<>> ELSE Head(seqs) \o Flatten(Tail(seqs))

C13_SplitAtUnquotedPipes ==
    pc \in {"segments", "planned"} =>
        /\ Len(plan.segments) = Len(args) - Len(WithoutPipes(args)) + 1
        /\ Flatten(plan.segments) = WithoutPipes(args)
        /\ \A i \in 1..Len(plan.segments) : \A j \in 1..Len(plan.segments[i]) :
              plan.segments[i][j].quoted \/ plan.segments[i][j].text # <<"|">>

\* `a '|' | a|b`: one separator, and the quoted pipe and `a|b` are arguments
C13_Witness ==
    /\ pc = "segments"
    /\ Len(plan.segments) = 2
    /\ plan.segments[1] = <<ParsedToken(<<"a">>, FALSE), ParsedToken(<<"|">>, TRUE)>>
    /\ plan.segments[2] = <<ParsedToken(<<"a", "|", "b">>, FALSE)>>

----------------------------------------------------------------------------
(* What a segment's tokens are, read from left to right: an unquoted token *)
(* is a redirection when one of the six operators is a prefix of its text, *)
(* and its operator is the longest such.                                   *)

RedirOps ==
    { [op |-> <<"1", ">", ">">>, is_stdout |-> TRUE,  mode |-> "Append"],
      [op |-> <<"2", ">", ">">>, is_stdout |-> FALSE, mode |-> "Append"],
      [op |-> <<">", ">">>,      is_stdout |-> TRUE,  mode |-> "Append"],
      [op |-> <<"1", ">">>,      is_stdout |-> TRUE,  mode |-> "Truncate"],
      [op |-> <<"2", ">">>,      is_stdout |-> FALSE, mode |-> "Truncate"],
      [op |-> <<">">>,           is_stdout |-> TRUE,  mode |-> "Truncate"] }

\* the operators that are a prefix of the text and the longest such: none or one
LongestOp(text) ==
    { r \in RedirOps :
        /\ StartsWith(text, r.op)
        /\ \A q \in RedirOps : StartsWith(text, q.op) => Len(q.op) <= Len(r.op) }

OpOf(token) == CHOOSE r \in LongestOp(token.text) : TRUE

LooksLikeRedirection(token) == ~token.quoted /\ LongestOp(token.text) # {}

\* the role of each token of the segment from index i on
RECURSIVE Roles(_, _)
Roles(tokens, i) ==
    IF i > Len(tokens) THEN <<>>
    ELSE IF ~LooksLikeRedirection(tokens[i]) THEN <<"argument">> \o Roles(tokens, i + 1)
    ELSE IF tokens[i].text # OpOf(tokens[i]).op THEN <<"joined">> \o Roles(tokens, i + 1)
    ELSE IF i = Len(tokens) THEN <<"argument">>
    ELSE <<"operator", "target">> \o Roles(tokens, i + 2)

\* the texts of the tokens that are arguments, in order
RECURSIVE ArgumentsOf(_, _, _)
ArgumentsOf(tokens, roles, i) ==
    IF i > Len(tokens) THEN <<>>
    ELSE (IF roles[i] = "argument" THEN <<tokens[i].text>> ELSE <<>>)
            \o ArgumentsOf(tokens, roles, i + 1)

\* the redirection the operator at index i of the segment stands for
Instance(tokens, i) ==
    CHOOSE inst \in
        { [is_stdout |-> r.is_stdout, mode |-> r.mode,
           path |-> IF tokens[i].text = r.op THEN tokens[i + 1].text
                    ELSE SubSeq(tokens[i].text, Len(r.op) + 1, Len(tokens[i].text))] :
          r \in LongestOp(tokens[i].text) } : TRUE

\* the indices of the segment's redirections for a stream, given the tokens' roles
InstancesFor(tokens, roles, is_stdout) ==
    { i \in 1..Len(tokens) :
        /\ roles[i] \in {"operator", "joined"}
        /\ \A r \in LongestOp(tokens[i].text) : r.is_stdout = is_stdout }

Entry(tokens, i) ==
    CHOOSE e \in { [path |-> inst.path, mode |-> inst.mode] :
                     inst \in {Instance(tokens, i)} } : TRUE

(* C14: in every segment an unquoted token is a redirection iff it is or   *)
(* begins with one of 1>> 2>> >> 1> 2> >, the longest that matches giving  *)
(* stream and mode; when it is the operator alone the next token's text is *)
(* the target, quoted or not, and is consumed; when characters follow the  *)
(* operator they are the target; an operator alone as the last token and   *)
(* any quoted token are arguments; the argv is the remaining tokens in     *)
(* their order, and an entry of the RedirectSpec is set only to one of the *)
(* segment's redirections for its stream.                                  *)
C14_RedirectionsParsed ==
    pc = "planned" =>
        \A s \in 1..Len(plan.segments) :
            \A tokens \in {plan.segments[s]} : \A pr \in {plan.parsed[s]} :
            \A roles \in {Roles(tokens, 1)} :
            \A outs \in {InstancesFor(tokens, roles, TRUE)} :
            \A errs \in {InstancesFor(tokens, roles, FALSE)} :
                /\ pr.args = ArgumentsOf(tokens, roles, 1)
                /\ IF outs = {} THEN pr.redirects.stdout = None
                   ELSE \E i \in outs : pr.redirects.stdout = Some(Entry(tokens, i))
                /\ IF errs = {} THEN pr.redirects.stderr = None
                   ELSE \E i \in errs : pr.redirects.stderr = Some(Entry(tokens, i))

\* `> '|' '>' 2>>`: the quoted pipe is the target, the quoted `>` and the last `2>>` arguments
C14_Witness ==
    /\ pc = "planned"
    /\ args = <<ParsedToken(<<">">>, FALSE), ParsedToken(<<"|">>, TRUE),
                ParsedToken(<<">">>, TRUE), ParsedToken(<<"2", ">", ">">>, FALSE)>>
    /\ plan.parsed[1].args = << <<">">>, <<"2", ">", ">">> >>
    /\ plan.parsed[1].redirects.stdout = Some([path |-> <<"|">>, mode |-> "Truncate"])
    /\ plan.parsed[1].redirects.stderr = None

(* C15: when a segment holds several redirections for one stream, the      *)
(* RedirectSpec entry of the stream is the target and mode of the last of  *)
(* them, and a redirection of stdout never changes the stderr entry nor    *)
(* one of stderr the stdout entry.                                         *)

Largest(indices) == CHOOSE i \in indices : \A j \in indices : j <= i

C15_LastRedirectionWins ==
    pc = "planned" =>
        \A s \in 1..Len(plan.segments) :
            \A tokens \in {plan.segments[s]} : \A pr \in {plan.parsed[s]} :
            \A roles \in {Roles(tokens, 1)} :
            \A outs \in {InstancesFor(tokens, roles, TRUE)} :
            \A errs \in {InstancesFor(tokens, roles, FALSE)} :
                /\ pr.redirects.stdout =
                      IF outs = {} THEN None ELSE Some(Entry(tokens, Largest(outs)))
                /\ pr.redirects.stderr =
                      IF errs = {} THEN None ELSE Some(Entry(tokens, Largest(errs)))

\* `1>f 2>e >>g`: stdout is the later `>>g`, stderr the `2>e` between the two
C15_Witness ==
    /\ pc = "planned"
    /\ args = <<ParsedToken(<<"1", ">", "f">>, FALSE), ParsedToken(<<"2", ">", "e">>, FALSE),
                ParsedToken(<<">", ">", "g">>, FALSE)>>
    /\ plan.parsed[1].args = <<>>
    /\ plan.parsed[1].redirects.stdout = Some([path |-> <<"g">>, mode |-> "Append"])
    /\ plan.parsed[1].redirects.stderr = Some([path |-> <<"e">>, mode |-> "Truncate"])

----------------------------------------------------------------------------
(* C16: in a mixed pipeline the stages run one after another in order; an  *)
(* external stage after the first reads exactly the stdout bytes of the    *)
(* stage before it, and the first an empty buffer; a builtin stage's       *)
(* stdout is its own output whatever the buffer held; and only the stdout  *)
(* of the last stage is written to a stdout destination: what reached the  *)
(* real stdout and the files as stdout is that, or the not-found message   *)
(* of the stage the pipeline stopped at.                                   *)

\* `text` and nothing else was delivered as stdout, to the destination of stage k
OnlyToStdoutOf(k, text) ==
    LET redirection == run.stages[k].redirects.stdout
        stdout_writes == SelectSeq(run.writes, LAMBDA wr : wr.stream = "stdout")
    IN  IF redirection = None
        THEN run.out = text /\ stdout_writes = <<>>
        ELSE /\ run.out = <<>>
             /\ stdout_writes = <<[path |-> Target(redirection), stream |-> "stdout",
                                   bytes |-> text]>>

C16_MixedStagesInSequence ==
    (LineProcessed /\ run.route = "mixed") =>
        /\ \A k \in 1..Len(run.ran) : run.ran[k].idx = k
        /\ \A c \in 1..Len(run.children) :
              LET child == run.children[c]
              IN  /\ child.idx <= Len(run.ran)
                  /\ child.waited
                  /\ child.stdin.kind = "piped"
                  /\ child.stdin.bytes = IF child.idx = 1 THEN <<>>
                                         ELSE run.ran[child.idx - 1].stdout
                  /\ run.ran[child.idx].stdout = ExternalOutput(child.stdin.bytes)
        /\ \A k \in 1..Len(run.ran) :
              is_builtin_command(run.stages[k].cmd) =>
                  run.ran[k].stdout =
                      run_builtin(run.cwd0, run.stages[k].cmd, run.stages[k].args,
                                  FALSE, FALSE)[1].stdout
        /\ IF Len(run.ran) = Len(run.stages)
           THEN OnlyToStdoutOf(Len(run.stages), run.ran[Len(run.ran)].stdout)
           ELSE OnlyToStdoutOf(Len(run.ran) + 1,
                               NotFoundText(run.stages[Len(run.ran) + 1].cmd))

\* `echo d >f | cat`: cat reads d, the real stdout gets it, and f stays empty
C16_Witness ==
    /\ pc = "prompt"
    /\ run.route = "mixed"
    /\ Len(run.ran) = 2
    /\ run.stages[1].cmd = <<"e", "c", "h", "o">>
    /\ run.stages[1].redirects.stdout # None
    /\ Len(run.children) = 1
    /\ run.children[1].stdin.bytes = <<"d", "\n">>
    /\ run.out = <<"d", "\n">>
    /\ fs[Target(run.stages[1].redirects.stdout)] = <<>>

----------------------------------------------------------------------------
(* The line editor's claims are read off `edits`: entry k holds the byte   *)
(* read, the buffer and pending prefix before it, and what it left.        *)

\* the completion candidates of a buffer
Candidates(buffer) == { w \in COMPLETION_BUILTINS \cup path_names : StartsWith(w, buffer) }

\* the buffer has no whitespace, two candidates or more, and no character that all
\* candidates have next
Ambiguous(buffer) ==
    /\ \A i \in 1..Len(buffer) : ~is_whitespace(buffer[i])
    /\ Cardinality(Candidates(buffer)) >= 2
    /\ ~(/\ \A w \in Candidates(buffer) : Len(w) > Len(buffer)
         /\ \A w, v \in Candidates(buffer) : w[Len(buffer) + 1] = v[Len(buffer) + 1])

\* the candidates in lexicographic order
InOrder(words) ==
    CHOOSE m \in [1..Cardinality(words) -> words] :
        \A i, j \in 1..Cardinality(words) : i < j => StrLess(m[i], m[j])

\* what the listing Tab prints
Listing(buffer) ==
    <<"\r\n">> \o JoinWith(InOrder(Candidates(buffer)), <<"  ">>) \o <<"\r\n">>
       \o <<"$", " ">> \o buffer

\* entry k is a Tab on an ambiguous buffer with no prefix pending
FirstTab(k) ==
    /\ edits[k].byte = 9
    /\ Ambiguous(edits[k].before)
    /\ edits[k].pending_before = None

(* C17: on a whitespace-free buffer with two candidates or more whose      *)
(* common prefix does not extend it, a first Tab (none pending) only rings *)
(* the bell and records the buffer as pending prefix; the Tab right after  *)
(* it prints \r\n, the candidates in lexicographic order joined by two     *)
(* spaces, \r\n, the prompt and the buffer, leaves the buffer and clears   *)
(* the pending prefix; a Tab right after a printable character or a        *)
(* backspace does not print the list.                                      *)
C17_DoubleTabLists ==
    \A k \in 1..Len(edits) :
        /\ FirstTab(k) =>
              /\ edits[k].out = Bell
              /\ edits[k].pending_multi = Some(edits[k].before)
              /\ edits[k].input = edits[k].before
        /\ (k > 1 /\ edits[k].byte = 9 /\ FirstTab(k - 1)) =>
              /\ edits[k].before = edits[k - 1].before
              /\ edits[k].out = Listing(edits[k].before)
              /\ edits[k].input = edits[k].before
              /\ edits[k].pending_multi = None
        /\ (k > 1 /\ edits[k].byte = 9 /\ Ambiguous(edits[k].before)
              /\ (is_printable(edits[k - 1].byte) \/ edits[k - 1].byte \in {127, 8})) =>
              /\ edits[k].out = Bell
              /\ edits[k].out # Listing(edits[k].before)

\* `e`, Tab, Tab: the second Tab lists echo and exit and leaves `e`
C17_Witness ==
    /\ Len(edits) = 3
    /\ edits[1].byte = 101 /\ edits[2].byte = 9 /\ edits[3].byte = 9
    /\ edits[2].out = Bell
    /\ edits[3].out = <<"\r\n", "e", "c", "h", "o", "  ", "e", "x", "i", "t", "\r\n",
                        "$", " ", "e">>
    /\ input = <<"e">>
    /\ pending_multi = None

(* C18: byte 4 ends the input (prints \r\n, read_user_input returns        *)
(* end-of-input and the REPL ends with nothing executed) only on an empty  *)
(* buffer; on a non-empty buffer byte 4, and every byte no arm handles on  *)
(* any buffer, leaves the buffer and prints nothing, and the next \n or \r *)
(* still returns the line.                                                 *)
C18_CtrlDOnlyOnEmptyBuffer ==
    /\ \A k \in 1..Len(edits) :
          /\ (edits[k].byte = 4 /\ edits[k].before = <<>>) =>
                (edits[k].out = <<"\r\n">> /\ edits[k].ret = "eof")
          /\ (edits[k].byte = 4 /\ edits[k].before # <<>>) =>
                (edits[k].out = <<>> /\ edits[k].ret = "loop"
                   /\ edits[k].input = edits[k].before)
          /\ (edits[k].byte \notin {10, 13, 9, 127, 8, 4} /\ ~is_printable(edits[k].byte)) =>
                (edits[k].out = <<>> /\ edits[k].ret = "loop"
                   /\ edits[k].input = edits[k].before)
          /\ edits[k].byte \in {10, 13} =>
                (edits[k].ret = "line" /\ edits[k].input = edits[k].before)
          /\ edits[k].ret = "eof" => (edits[k].byte = 4 /\ edits[k].before = <<>>)
          /\ k > 1 => edits[k].before = edits[k - 1].input
    /\ pc = "line" => input = edits[Len(edits)].before
    /\ pc \in {"eof", "done"} => (nlines = 0 /\ run = NoRun)
    /\ pc = "done" => reason = "eof"

\* `e`, Ctrl-D, escape, return: the line `e` is returned
C18_Witness ==
    /\ pc = "line"
    /\ Len(edits) = 4
    /\ edits[1].byte = 101 /\ edits[2].byte = 4 /\ edits[3].byte = 27 /\ edits[4].byte = 13
    /\ edits[2].out = <<>> /\ edits[3].out = <<>>
    /\ input = <<"e">>

----------------------------------------------------------------------------
(* C19: inside double quotes a backslash is dropped only before `"` or `\`, *)
(* and then that character is appended and a `\"` does not close the       *)
(* quotes; before any other character, or as the last character of the     *)
(* line, the backslash itself is appended and the character after it is    *)
(* read next, still inside the quotes.  Inside single quotes a backslash   *)
(* is appended as it is and the `'` after it closes the quotes.            *)
C19_BackslashInQuotes ==
    /\ (last_step.state = "Double" /\ last_step.ch = Backslash) =>
          /\ state = "Double"
          /\ IF last_step.at < Len(input)
                /\ input[last_step.at + 1] \in {Quote2, Backslash}
             THEN /\ last_step.appended = <<input[last_step.at + 1]>>
                  /\ pos = last_step.at + 2
             ELSE /\ last_step.appended = <<Backslash>>
                  /\ pos = last_step.at + 1
    /\ (last_step.state = "Single" /\ last_step.ch = Backslash) =>
          /\ state = "Single"
          /\ last_step.appended = <<Backslash>>
          /\ pos = last_step.at + 1
    /\ (last_step.state = "Single" /\ last_step.ch = Quote1) =>
          /\ state = "Normal"
          /\ last_step.appended = <<>>
          /\ pos = last_step.at + 1
    /\ last_step.state \in {"Single", "Double"} => ~last_step.flushed

\* `"\""`: one quoted token whose text is a double quote
C19_Witness ==
    /\ pc = "parsed"
    /\ input = <<Quote2, Backslash, Quote2, Quote2>>
    /\ args = <<ParsedToken(<<Quote2>>, TRUE)>>

----------------------------------------------------------------------------
\* the redirections that survive planning: one per stage and stream
Surviving ==
    {[stage |-> i, stream |-> "stdout", redirection |-> run.stages[i].redirects.stdout] :
        i \in {j \in 1..Len(run.stages) : run.stages[j].redirects.stdout # None}}
    \cup
    {[stage |-> i, stream |-> "stderr", redirection |-> run.stages[i].redirects.stderr] :
        i \in {j \in 1..Len(run.stages) : run.stages[j].redirects.stderr # None}}

\* the opens of `path` for `stream` made while the line was processed
OpensOf(path, stream) ==
    {k \in 1..Len(run.opens) : run.opens[k].path = path /\ run.opens[k].stream = stream}

(* C20: while one line is processed, each redirect target is opened once   *)
(* for each redirection that survives planning, in the mode of that        *)
(* redirection: for every target and stream, the opens are as many as the  *)
(* surviving redirections of that stream naming the target, and each open  *)
(* has the mode of one of them.                                            *)
C20_OpenedOncePerRedirection ==
    LineProcessed =>
        \A r \in Surviving :
            LET path == Target(r.redirection)
                same == {q \in Surviving : q.stream = r.stream
                                              /\ Target(q.redirection) = path}
            IN  /\ Cardinality(OpensOf(path, r.stream)) = Cardinality(same)
                /\ \A k \in OpensOf(path, r.stream) :
                      \E q \in same : run.opens[k].mode = q.redirection[1].mode

----------------------------------------------------------------------------
\* the line has `''` or `""` at i and i+1, read in the Normal state with an empty
\* accumulator (at the start of the line or after whitespace that ended a token)
\* and followed by whitespace or the end of the line
EmptyQuotedAlone(inp, i) ==
    /\ i + 1 <= Len(inp)
    /\ inp[i] \in {Quote1, Quote2}
    /\ inp[i + 1] = inp[i]
    /\ i > 1 => is_whitespace(inp[i - 1])
    /\ i + 1 < Len(inp) => is_whitespace(inp[i + 2])
    /\ \A before \in {ParseLoop(ParserInit, SubSeq(inp, 1, i - 1))} :
          /\ before.pos = i
          /\ before.state = "Normal"
          /\ before.current = <<>>

\* the line without its characters i and i+1
WithoutPair(inp, i) == SubSeq(inp, 1, i - 1) \o SubSeq(inp, i + 2, Len(inp))

(* C21: every token the tokenizer produces has a non-empty text, on every  *)
(* line; an empty quoted string '' or "" standing alone between whitespace *)
(* yields no token (the tokens are those of the line without it); and the  *)
(* accumulator's quoted flag is true only while the accumulator is         *)
(* non-empty.                                                              *)
C21_TokensAreNonEmpty ==
    /\ \A i \in 1..Len(args) : args[i].text # <<>>
    /\ current_quoted => current # <<>>
    /\ pc = "parsed" =>
          \A i \in 1..Len(input) :
              EmptyQuotedAlone(input, i) => args = parse_line(WithoutPair(input, i))

\* `a ''`: the one token is a, the empty quoted string after it gives none
C21_Witness ==
    /\ pc = "parsed"
    /\ input = <<"a", " ", Quote1, Quote1>>
    /\ EmptyQuotedAlone(input, 3)
    /\ args = <<ParsedToken(<<"a">>, FALSE)>>

----------------------------------------------------------------------------
(* C22: after any sequence of bytes read by the line editor, a pending     *)
(* double-Tab prefix that is set equals the buffer: every byte that        *)
(* changed the buffer left the prefix cleared, and a byte that set the     *)
(* prefix set it to the buffer it left.                                    *)
C22_PendingIsTheBuffer ==
    /\ pending_multi # None => pending_multi = Some(input)
    /\ \A k \in 1..Len(edits) :
          /\ edits[k].input # edits[k].before => edits[k].pending_multi = None
          /\ (edits[k].pending_multi # None
                 /\ edits[k].pending_multi # edits[k].pending_before)
                => edits[k].pending_multi = Some(edits[k].input)

\* `e`, Tab, escape: the prefix `e` is pending, the buffer is `e`, and a byte
\* the editor ignores has been read since
C22_Witness ==
    /\ pc = "edit"
    /\ Len(edits) = 3
    /\ edits[2].byte = 9 /\ edits[3].byte = 27
    /\ input = <<"e">>
    /\ pending_multi = Some(<<"e">>)

----------------------------------------------------------------------------
\* the prefixes all the words have
CommonPrefixes(words) ==
    { p \in UNION { { SubSeq(w, 1, n) : n \in 0..Len(w) } : w \in words } :
        \A v \in words : StartsWith(v, p) }

\* the longest of them
LongestCommon(words) ==
    CHOOSE p \in CommonPrefixes(words) : \A q \in CommonPrefixes(words) : Len(q) <= Len(p)

HasWhitespace(buffer) == \E i \in 1..Len(buffer) : is_whitespace(buffer[i])

(* C23: a Tab never removes or rewrites typed text.  For every buffer and  *)
(* every set of candidates, the buffer after complete_buffer begins with   *)
(* the buffer before it; when the buffer grew, what was printed is exactly *)
(* the text appended, and otherwise only the bell or the list of           *)
(* candidates; the buffer grows only when it has no whitespace and has a   *)
(* candidate: a single candidate leaves the candidate and a space, several *)
(* leave their longest common prefix.                                      *)
C23_TabOnlyAppends ==
    \A k \in 1..Len(edits) : edits[k].byte = 9 =>
        \A before \in {edits[k].before} : \A after \in {edits[k].input} :
        \A cands \in {Candidates(before)} :
            /\ StartsWith(after, before)
            /\ IF after # before
               THEN edits[k].out = SubSeq(after, Len(before) + 1, Len(after))
               ELSE edits[k].out \in {Bell, Listing(before)}
            /\ after # before => (~HasWhitespace(before) /\ cands # {})
            /\ (~HasWhitespace(before) /\ Cardinality(cands) = 1) =>
                  \A w \in cands : after = w \o <<" ">>
            /\ (~HasWhitespace(before) /\ Cardinality(cands) >= 2) =>
                  after = LongestCommon(cands)

\* a Tab on `c` with `ca` and `cat` in PATH: the buffer becomes `ca`, `a` is printed
C23_Witness ==
    /\ pc = "tabbed"
    /\ path_names = { <<"c", "a">>, <<"c", "a", "t">> }
    /\ edits[1].before = <<"c">>
    /\ input = <<"c", "a">>
    /\ edits[1].out = <<"a">>

====
